---- MODULE Spec2Model ----
(***************************************************************************)
(* A model of osglob.py: pattern based removal of files, purge of a        *)
(* directory (files only, or whole content) and creation / removal of      *)
(* directories that tolerate "already there" and "already gone".           *)
(*                                                                         *)
(* A path string is a sequence of one-character strings, so that the       *)
(* string operations of the code (startswith, len, ==, os.sep in path,     *)
(* dirname, join, normpath) are computed on characters as the code         *)
(* computes them.  The filesystem is a function from canonical paths (a    *)
(* sequence of names, the root being the empty sequence) to nodes.  The    *)
(* operating system is POSIX, the process is an unprivileged owner of all  *)
(* files: a directory's r bit lets it be listed, its x bit lets names in   *)
(* it be looked up, w and x together let entries be added and removed; an  *)
(* immutable entry can be neither removed nor chmod-ed.                    *)
(***************************************************************************)
EXTENDS Integers, Sequences, FiniteSets, TLC

VARIABLES
    fs,     \* the filesystem now: canonical path -> node
    cwd,    \* the process's working directory (a canonical path)
    pre,    \* the filesystem as it was when the last call started
    call,   \* the last call: its operation and arguments
    ret,    \* what the last call returned, or the exception it raised
    ncalls  \* how many calls have been made

vars == <<fs, cwd, pre, call, ret, ncalls>>

(***************************************************************************)
(* Strings                                                                 *)
(***************************************************************************)
Sep == "/"
curdir == <<".">>
pardir == <<".", ".">>

Max(S) == CHOOSE x \in S : \A y \in S : y <= x

\* the one element of a singleton: Only({e(x) : x \in {v}}) is e(v)
Only(S) == CHOOSE v \in S : TRUE

StartsWith(s, p) == Len(p) <= Len(s) /\ SubSeq(s, 1, Len(p)) = p

EndsWith(s, p) == Len(p) <= Len(s) /\ SubSeq(s, Len(s) - Len(p) + 1, Len(s)) = p

\* str.rfind('/') + 1: the 1-based position of the last separator, 0 if none
RFindSep(s) ==
    IF \A i \in 1..Len(s) : s[i] # Sep THEN 0
    ELSE Max({i \in 1..Len(s) : s[i] = Sep})

AllSep(s) == \A i \in 1..Len(s) : s[i] = Sep

\* str.rstrip('/')
RECURSIVE RStripSep(_)
RStripSep(s) ==
    IF s # <<>> /\ s[Len(s)] = Sep THEN RStripSep(SubSeq(s, 1, Len(s) - 1)) ELSE s

\* str.split('/'): the components between separators, the empty ones kept
RECURSIVE SplitSep(_)
SplitSep(s) ==
    Only({IF i = 0 THEN <<s>>
          ELSE Append(SplitSep(SubSeq(s, 1, i - 1)), SubSeq(s, i + 1, Len(s)))
          : i \in {RFindSep(s)}})

\* '/'.join(comps)
RECURSIVE JoinSep(_)
JoinSep(comps) ==
    IF comps = <<>> THEN <<>>
    ELSE IF Len(comps) = 1 THEN comps[1]
    ELSE JoinSep(SubSeq(comps, 1, Len(comps) - 1)) \o <<Sep>> \o comps[Len(comps)]

(***************************************************************************)
(* posixpath                                                               *)
(***************************************************************************)
isabs(s) == StartsWith(s, <<Sep>>)

\* posixpath.split: (head, tail), tail has no separator
split(p) ==
    Only({<<IF i > 0 /\ ~AllSep(SubSeq(p, 1, i)) THEN RStripSep(SubSeq(p, 1, i))
            ELSE SubSeq(p, 1, i),
            SubSeq(p, i + 1, Len(p))>>
          : i \in {RFindSep(p)}})

dirname(p) == split(p)[1]

\* posixpath.join of two components
join(a, b) ==
    IF isabs(b) THEN b
    ELSE IF a = <<>> \/ EndsWith(a, <<Sep>>) THEN a \o b
    ELSE a \o <<Sep>> \o b

\* the loop of posixpath.normpath over the components
RECURSIVE NormComps(_, _, _)
NormComps(comps, acc, initial) ==
    IF comps = <<>> THEN acc
    ELSE IF Head(comps) = <<>> \/ Head(comps) = curdir
         THEN NormComps(Tail(comps), acc, initial)
    ELSE IF Head(comps) # pardir
            \/ (initial = 0 /\ acc = <<>>)
            \/ (acc # <<>> /\ acc[Len(acc)] = pardir)
         THEN NormComps(Tail(comps), Append(acc, Head(comps)), initial)
    ELSE IF acc # <<>>
         THEN NormComps(Tail(comps), SubSeq(acc, 1, Len(acc) - 1), initial)
    ELSE NormComps(Tail(comps), acc, initial)

\* the number of leading slashes posixpath.normpath keeps
InitialSlashes(path) ==
    IF ~isabs(path) THEN 0
    ELSE IF StartsWith(path, <<Sep, Sep>>) /\ ~StartsWith(path, <<Sep, Sep, Sep>>) THEN 2
    ELSE 1

normpath(path) ==
    IF path = <<>> THEN curdir
    ELSE Only({IF out = <<>> THEN curdir ELSE out
               : out \in {SubSeq(<<Sep, Sep>>, 1, InitialSlashes(path))
                          \o JoinSep(NormComps(SplitSep(path), <<>>,
                                               InitialSlashes(path)))}})

(***************************************************************************)
(* The filesystem                                                          *)
(***************************************************************************)
Root == <<>>

RWX == {"r", "w", "x"}

DirNode(mode) == [kind |-> "dir", mode |-> mode, imm |-> FALSE, target |-> <<>>]

FileNode(imm) == [kind |-> "file", mode |-> {"r", "w"}, imm |-> imm, target |-> <<>>]

LinkNode(target) == [kind |-> "link", mode |-> RWX, imm |-> FALSE, target |-> target]

Parent(p) == IF p = Root THEN Root ELSE SubSeq(p, 1, Len(p) - 1)

\* p is a strict descendant of d
Under(p, d) == Len(p) > Len(d) /\ SubSeq(p, 1, Len(d)) = d

Children(f, d) == {p \in DOMAIN f : p # Root /\ Parent(p) = d}

Without(f, p) == [q \in DOMAIN f \ {p} |-> f[q]]

With(f, p, node) == [q \in DOMAIN f \cup {p} |-> IF q = p THEN node ELSE f[q]]

\* os.getcwd(): the working directory as a string
RECURSIVE PathStr(_)
PathStr(p) ==
    IF p = Root THEN <<>> ELSE PathStr(Parent(p)) \o <<Sep>> \o p[Len(p)]

CwdStr(c) == IF c = Root THEN <<Sep>> ELSE PathStr(c)

\* the names of a path string, the empty components dropped
Names(s) == SelectSeq(SplitSep(s), LAMBDA c : c # <<>>)

\* a chain of symbolic links longer than this does not resolve
MaxLinkDepth == 2

\* Path resolution from directory cur over the names comps[i..].  A removed
\* working directory still resolves "." and ".." (to itself and to the
\* directory that was its parent), but holds no name.
RECURSIVE Walk(_, _, _, _, _, _)
Walk(f, cur, comps, i, follow, depth) ==
    IF i > Len(comps) THEN [ok |-> TRUE, p |-> cur]
    ELSE IF cur \in DOMAIN f /\ (f[cur].kind # "dir" \/ "x" \notin f[cur].mode)
         THEN [ok |-> FALSE, p |-> cur]
    ELSE IF comps[i] = curdir THEN Walk(f, cur, comps, i + 1, follow, depth)
    ELSE IF comps[i] = pardir THEN Walk(f, Parent(cur), comps, i + 1, follow, depth)
    ELSE Only({
        IF child \notin DOMAIN f THEN [ok |-> FALSE, p |-> child]
        ELSE IF f[child].kind # "link" \/ (i = Len(comps) /\ ~follow)
             THEN Walk(f, child, comps, i + 1, follow, depth)
        ELSE IF depth >= MaxLinkDepth THEN [ok |-> FALSE, p |-> child]
        ELSE Only({IF r.ok THEN Walk(f, r.p, comps, i + 1, follow, depth) ELSE r
                   : r \in {Walk(f, IF isabs(f[child].target) THEN Root ELSE cur,
                                 Names(f[child].target), 1, TRUE, depth + 1)}})
        : child \in {Append(cur, comps[i])}})

\* stat (follow) / lstat (~follow) of a path string: [ok, p]; a trailing
\* separator makes the last name be followed and requires a directory
Lookup(f, c, s, follow) ==
    IF s = <<>> THEN [ok |-> FALSE, p |-> Root]
    ELSE Only({IF r.ok /\ EndsWith(s, <<Sep>>) /\ r.p \in DOMAIN f /\ f[r.p].kind # "dir"
               THEN [ok |-> FALSE, p |-> r.p]
               ELSE r
               : r \in {Walk(f, IF isabs(s) THEN Root ELSE c, Names(s), 1,
                             follow \/ EndsWith(s, <<Sep>>), 0)}})

\* the node at a path a lookup reached (a removed working directory, or a
\* removed ancestor of it, is an empty directory)
NodeAt(f, p) == IF p \in DOMAIN f THEN f[p] ELSE DirNode(RWX)

isdir(f, c, s) == \E r \in {Lookup(f, c, s, TRUE)} : r.ok /\ NodeAt(f, r.p).kind = "dir"

isfile(f, c, s) == \E r \in {Lookup(f, c, s, TRUE)} : r.ok /\ NodeAt(f, r.p).kind = "file"

islink(f, c, s) == \E r \in {Lookup(f, c, s, FALSE)} : r.ok /\ NodeAt(f, r.p).kind = "link"

exists(f, c, s) == Lookup(f, c, s, TRUE).ok

lexists(f, c, s) == Lookup(f, c, s, FALSE).ok

(***************************************************************************)
(* The primitives of os                                                    *)
(***************************************************************************)
\* entries can be added to and removed from directory d
CanModify(f, d) == d \in DOMAIN f /\ f[d].kind = "dir" /\ {"w", "x"} \subseteq f[d].mode

\* os.remove(s) (unlink): [ok, fs]
OsRemove(f, c, s) ==
    Only({IF r.ok /\ r.p \in DOMAIN f /\ f[r.p].kind # "dir" /\ ~f[r.p].imm
             /\ CanModify(f, Parent(r.p))
          THEN [ok |-> TRUE, fs |-> Without(f, r.p)]
          ELSE [ok |-> FALSE, fs |-> f]
          : r \in {Lookup(f, c, s, FALSE)}})

\* os.rmdir(s): [ok, fs]; fails on a symlink, on a non-empty directory, on
\* the root, and on a path whose last name is "." or ".."
OsRmdir(f, c, s) ==
    Only({IF s # <<>> /\ ns # <<>> /\ ns[Len(ns)] \notin {curdir, pardir}
          THEN Only({IF r.ok /\ r.p \in DOMAIN f /\ r.p # Root /\ f[r.p].kind = "dir"
                        /\ ~f[r.p].imm /\ Children(f, r.p) = {}
                        /\ CanModify(f, Parent(r.p))
                     THEN [ok |-> TRUE, fs |-> Without(f, r.p)]
                     ELSE [ok |-> FALSE, fs |-> f]
                     : r \in {Walk(f, IF isabs(s) THEN Root ELSE c, ns, 1, FALSE, 0)}})
          ELSE [ok |-> FALSE, fs |-> f]
          : ns \in {Names(s)}})

\* os.mkdir(s): [err, fs], err = "" on success
OsMkdir(f, c, s) ==
    Only({
        IF ns = <<>> THEN [err |-> IF s = <<>> THEN "ENOENT" ELSE "EEXIST", fs |-> f]
        ELSE Only({
            IF ~r.ok THEN [err |-> "ENOENT", fs |-> f]
            ELSE IF r.p \in DOMAIN f /\ f[r.p].kind # "dir" THEN [err |-> "ENOTDIR", fs |-> f]
            ELSE IF ns[Len(ns)] \in {curdir, pardir} \/ Append(r.p, ns[Len(ns)]) \in DOMAIN f
                 THEN [err |-> "EEXIST", fs |-> f]
            ELSE IF r.p \notin DOMAIN f THEN [err |-> "ENOENT", fs |-> f]
            ELSE IF ~CanModify(f, r.p) THEN [err |-> "EACCES", fs |-> f]
            ELSE [err |-> "", fs |-> With(f, Append(r.p, ns[Len(ns)]), DirNode(RWX))]
            : r \in {Walk(f, IF isabs(s) THEN Root ELSE c,
                          SubSeq(ns, 1, Len(ns) - 1), 1, TRUE, 0)}})
        : ns \in {Names(s)}})

\* os.listdir(s): [ok, names]
OsListdir(f, c, s) ==
    Only({IF r.ok /\ NodeAt(f, r.p).kind = "dir" /\ "r" \in NodeAt(f, r.p).mode
          THEN [ok |-> TRUE, names |-> {p[Len(p)] : p \in Children(f, r.p)}]
          ELSE [ok |-> FALSE, names |-> {}]
          : r \in {Lookup(f, c, s, TRUE)}})

\* os.access(s, os.W_OK)
OsAccessW(f, c, s) ==
    \E r \in {Lookup(f, c, s, TRUE)} :
        r.ok /\ "w" \in NodeAt(f, r.p).mode /\ ~NodeAt(f, r.p).imm

\* os.chmod(s, stat.S_IWRITE): the mode becomes 0200, write only
OsChmodW(f, c, s) ==
    Only({IF r.ok /\ r.p \in DOMAIN f /\ ~f[r.p].imm
          THEN [ok |-> TRUE, fs |-> [f EXCEPT ![r.p].mode = {"w"}]]
          ELSE [ok |-> FALSE, fs |-> f]
          : r \in {Lookup(f, c, s, TRUE)}})

\* every order in which the names of a listing may come
RECURSIVE Orders(_)
Orders(S) ==
    IF S = {} THEN {<<>>}
    ELSE UNION {{<<x>> \o q : q \in Orders(S \ {x})} : x \in S}

(***************************************************************************)
(* glob (Python 2.7): '*' and '?' are the wildcards of the model's         *)
(* patterns; no name and no pattern holds a '['.                           *)
(***************************************************************************)
Magic == {"*", "?"}

has_magic(s) == \E i \in 1..Len(s) : s[i] \in Magic

\* fnmatch.fnmatch(name, pat)
RECURSIVE fnmatch(_, _)
fnmatch(name, pat) ==
    IF pat = <<>> THEN name = <<>>
    ELSE IF Head(pat) = "*"
         THEN fnmatch(name, Tail(pat)) \/ (name # <<>> /\ fnmatch(Tail(name), pat))
    ELSE IF name = <<>> THEN FALSE
    ELSE (Head(pat) = "?" \/ Head(pat) = Head(name)) /\ fnmatch(Tail(name), Tail(pat))

\* glob.glob1: the names of directory d matching pat; a pattern that does
\* not start with a dot never matches a name that does
glob1(f, c, d, pat) ==
    {n \in OsListdir(f, c, IF d = <<>> THEN curdir ELSE d).names :
        (pat[1] = "." \/ n[1] # ".") /\ fnmatch(n, pat)}

\* glob.glob0: a literal last component
glob0(f, c, d, base) ==
    IF base = <<>> THEN (IF isdir(f, c, d) THEN {base} ELSE {})
    ELSE IF lexists(f, c, join(d, base)) THEN {base} ELSE {}

\* glob.iglob(pathname), as the set of the paths it yields
RECURSIVE iglob(_, _, _)
iglob(f, c, pathname) ==
    IF ~has_magic(pathname)
    THEN (IF lexists(f, c, pathname) THEN {pathname} ELSE {})
    ELSE UNION {
        IF sp[1] = <<>> THEN glob1(f, c, curdir, sp[2])
        ELSE UNION {{join(dd, n) : n \in IF has_magic(sp[2])
                                         THEN glob1(f, c, dd, sp[2])
                                         ELSE glob0(f, c, dd, sp[2])}
                    : dd \in IF sp[1] # pathname /\ has_magic(sp[1])
                             THEN iglob(f, c, sp[1]) ELSE {sp[1]}}
        : sp \in {split(pathname)}}

(***************************************************************************)
(* shutil.rmtree (Python 2.7) with the onerror hook of Content.remove      *)
(***************************************************************************)
\* func(path), retried by the hook: [fs, exc]
Retry(f, c, func, s) ==
    IF func = "islink" THEN [fs |-> f, exc |-> FALSE]
    ELSE IF func = "listdir" THEN [fs |-> f, exc |-> ~OsListdir(f, c, s).ok]
    ELSE Only({[fs |-> r.fs, exc |-> ~r.ok]
               : r \in {IF func = "remove" THEN OsRemove(f, c, s) ELSE OsRmdir(f, c, s)}})

\* try_make_rw(func, path, exc): [fs, exc]; exc = TRUE when it raises.  When
\* the path is not writable it is chmod-ed and func retried, otherwise the
\* error being handled is raised again.
try_make_rw(f, c, func, s) ==
    IF OsAccessW(f, c, s) THEN [fs |-> f, exc |-> TRUE]
    ELSE Only({IF ch.ok THEN Retry(ch.fs, c, func, s) ELSE [fs |-> f, exc |-> TRUE]
               : ch \in {OsChmodW(f, c, s)}})

\* the last step of rmtree: os.rmdir(path), its failure handed to the hook
RmTreeRmdir(st, c, s) ==
    IF st.exc THEN st
    ELSE Only({IF r.ok THEN [fs |-> r.fs, exc |-> FALSE]
               ELSE try_make_rw(st.fs, c, "rmdir", s)
               : r \in {OsRmdir(st.fs, c, s)}})

\* rmtree(path, onerror=try_make_rw): the set of its outcomes [fs, exc], one
\* for every order of the listings.  An exception raised by the hook ends
\* the call at once; after a listing that failed and a hook that returned,
\* the names are none.
RECURSIVE rmtree(_, _, _)
RECURSIVE RmTreeLoop(_, _, _, _)
rmtree(f, c, s) ==
    IF islink(f, c, s) THEN {try_make_rw(f, c, "islink", s)}
    ELSE {RmTreeRmdir(st, c, s) :
            st \in UNION {IF l.ok
                          THEN UNION {RmTreeLoop({[fs |-> f, exc |-> FALSE]}, c, s, o)
                                      : o \in Orders(l.names)}
                          ELSE {try_make_rw(f, c, "listdir", s)}
                          : l \in {OsListdir(f, c, s)}}}

\* the body of rmtree's loop for one name
RmTreeItem(f, c, fullname) ==
    IF \E r \in {Lookup(f, c, fullname, FALSE)} : r.ok /\ NodeAt(f, r.p).kind = "dir"
    THEN rmtree(f, c, fullname)
    ELSE {IF d.ok THEN [fs |-> d.fs, exc |-> FALSE]
          ELSE try_make_rw(f, c, "remove", fullname)
          : d \in {OsRemove(f, c, fullname)}}

RmTreeLoop(S, c, s, order) ==
    IF order = <<>> THEN S
    ELSE RmTreeLoop(UNION {IF st.exc THEN {st}
                           ELSE RmTreeItem(st.fs, c, join(s, Head(order))) : st \in S},
                    c, s, Tail(order))

(***************************************************************************)
(* osglob                                                                  *)
(***************************************************************************)
NoSuchDir == "OSError: No such directory"
ParentNotAllowed == "OSError: Parent directory is not allowed here"
Raised == {NoSuchDir, ParentNotAllowed, "OSError", "AttributeError"}

Star == <<"*">>
DotStar == <<".", "*">>

Flag(ok) == IF ok THEN "True" ELSE "False"

RECURSIVE RemoveEach(_, _, _, _)

\* a variant of the loop that stops at the first deletion that fails
RECURSIVE RemoveEachFailFast(_, _, _, _)
RemoveEachFailFast(f, c, todo, ok) ==
    IF todo = {} \/ ~ok THEN [fs |-> f, ret |-> Flag(ok)]
    ELSE Only({Only({RemoveEachFailFast(r.fs, c, todo \ {filename}, ok /\ r.ok)
                     : r \in {OsRemove(f, c, filename)}})
               : filename \in {CHOOSE m \in todo : TRUE}})

\* the loop of remove over the plain-file matches: [fs, ret]
RemoveEach(f, c, todo, ok) ==
    IF todo = {} THEN [fs |-> f, ret |-> Flag(ok)]
    ELSE Only({Only({RemoveEach(r.fs, c, todo \ {filename}, ok /\ r.ok)
                     : r \in {OsRemove(f, c, filename)}})
               : filename \in {CHOOSE m \in todo : TRUE}})

\* a variant of remove without the test of the pattern's directory
RemoveUnchecked(f, c, pattern) ==
    RemoveEach(f, c, {m \in iglob(f, c, pattern) : isfile(f, c, m)}, TRUE)

\* a variant of remove without the os.path.isfile filter
RemoveAnyMatch(f, c, pattern) ==
    IF dirname(pattern) # <<>> /\ ~isdir(f, c, dirname(pattern))
    THEN [fs |-> f, ret |-> NoSuchDir]
    ELSE RemoveEach(f, c, iglob(f, c, pattern), TRUE)

\* remove(pattern): [fs, ret].  filter() of Python 2 builds the whole list of
\* plain-file matches before the first deletion.
remove(f, c, pattern) ==
    IF dirname(pattern) # <<>> /\ ~isdir(f, c, dirname(pattern))
    THEN [fs |-> f, ret |-> NoSuchDir]
    ELSE RemoveEach(f, c, {m \in iglob(f, c, pattern) : isfile(f, c, m)}, TRUE)

\* a variant of files.remove whose second pass runs only after a first
\* pass that returned True
FilesRemoveShortCircuit(f, c, path) ==
    IF ~isdir(f, c, path) THEN [fs |-> f, ret |-> NoSuchDir]
    ELSE Only({IF r1.ret # "True" THEN r1 ELSE remove(r1.fs, c, join(path, Star))
               : r1 \in {remove(f, c, join(path, DotStar))}})

\* files.remove(path): [fs, ret]
FilesRemove(f, c, path) ==
    IF ~isdir(f, c, path) THEN [fs |-> f, ret |-> NoSuchDir]
    ELSE Only({
        IF r1.ret \in Raised THEN r1
        ELSE Only({IF r2.ret \in Raised THEN r2
                   ELSE [fs |-> r2.fs, ret |-> IF r2.ret = "True" THEN r1.ret ELSE "False"]
                   : r2 \in {remove(r1.fs, c, join(path, Star))}})
        : r1 \in {remove(f, c, join(path, DotStar))}})

\* _testdir_noparent(path): "" when it passes, else the exception
_testdir_noparent(f, c, path) ==
    IF ~isdir(f, c, path) THEN NoSuchDir
    ELSE IF path = pardir THEN ParentNotAllowed
    ELSE IF c \notin DOMAIN f THEN "OSError"
    ELSE IF StartsWith(CwdStr(c), path) /\ Len(path) < Len(CwdStr(c))
         THEN ParentNotAllowed
    ELSE ""

\* content.remove(path): the set of its outcomes [fs, ret], one for every
\* order of the listings
RECURSIVE ContentRemove(_, _, _)
RECURSIVE ContentLoop(_, _, _, _)
ContentRemove(f, c, path) ==
    UNION {
        IF t # "" THEN {[fs |-> f, ret |-> t]}
        ELSE UNION {
            IF ~l.ok THEN {[fs |-> f, ret |-> "OSError"]}
            ELSE {[fs |-> st.fs, ret |-> IF st.exc # "" THEN st.exc ELSE Flag(st.ok)] :
                  st \in UNION {ContentLoop({[fs |-> f, ok |-> TRUE, exc |-> ""]},
                                            c, path, o)
                                : o \in Orders(l.names)}}
            : l \in {OsListdir(f, c, path)}}
        : t \in {_testdir_noparent(f, c, path)}}

\* a variant of the loop's body that removes a subdirectory with os.rmdir,
\* not with shutil.rmtree
ContentItemNoTree(st, c, fullname) ==
    {[fs |-> r.fs, ok |-> st.ok /\ r.ok, exc |-> ""]
     : r \in {IF isdir(st.fs, c, fullname) THEN OsRmdir(st.fs, c, fullname)
              ELSE OsRemove(st.fs, c, fullname)}}

\* the body of content.remove's loop for one item: rmtree of a directory
\* and, when that raised, content.remove of it; os.remove of anything else
ContentItem(st, c, fullname) ==
    IF isdir(st.fs, c, fullname)
    THEN UNION {IF ~t.exc THEN {[fs |-> t.fs, ok |-> st.ok, exc |-> ""]}
                ELSE {[fs |-> u.fs, ok |-> FALSE,
                       exc |-> IF u.ret \in Raised THEN u.ret ELSE ""] :
                      u \in ContentRemove(t.fs, c, fullname)}
                : t \in rmtree(st.fs, c, fullname)}
    ELSE {[fs |-> r.fs, ok |-> st.ok /\ r.ok, exc |-> ""]
          : r \in {OsRemove(st.fs, c, fullname)}}

ContentLoop(S, c, path, order) ==
    IF order = <<>> THEN S
    ELSE ContentLoop(UNION {IF st.exc # "" THEN {st}
                            ELSE ContentItem(st, c, join(path, Head(order))) : st \in S},
                     c, path, Tail(order))

\* os.makedirs(name) (Python 2.7): [err, fs]
RECURSIVE OsMakedirs(_, _, _)
OsMakedirs(f, c, name) ==
    Only({
        IF ht[1] # <<>> /\ ht[2] # <<>> /\ ~exists(f, c, ht[1])
        THEN Only({IF r.err \notin {"", "EEXIST"} THEN r
                   ELSE IF ht[2] = curdir THEN [err |-> "", fs |-> r.fs]
                   ELSE OsMkdir(r.fs, c, name)
                   : r \in {OsMakedirs(f, c, ht[1])}})
        ELSE OsMkdir(f, c, name)
        : ht \in {IF split(name)[2] = <<>> THEN split(split(name)[1]) ELSE split(name)}})

\* _mkdir(mkfunc, path, purge=...): [fs, ret].  purge is "None", "False",
\* "files", "True" or "content".  The os module has neither attribute
\* content nor files, so both purges end in AttributeError.
_mkdir(f, c, chain, path, purge) ==
    IF ~isdir(f, c, path)
    THEN Only({[fs |-> r.fs, ret |-> IF r.err = "" THEN "None" ELSE "OSError"]
               : r \in {IF chain THEN OsMakedirs(f, c, path) ELSE OsMkdir(f, c, path)}})
    ELSE IF purge # "None" THEN [fs |-> f, ret |-> "AttributeError"]
    ELSE [fs |-> f, ret |-> "None"]

\* rmdir(path, silent): [fs, ret]
rmdir(f, c, path, silent) ==
    IF isdir(f, c, path)
    THEN Only({IF r.ok THEN [fs |-> r.fs, ret |-> "True"]
               ELSE [fs |-> f, ret |-> IF silent THEN "False" ELSE "OSError"]
               : r \in {OsRmdir(f, c, path)}})
    ELSE [fs |-> f, ret |-> "True"]

\* os.path.abspath(path): [ok, s]; os.getcwd() fails in a removed directory
abspath(f, c, path) ==
    IF isabs(path) THEN [ok |-> TRUE, s |-> normpath(path)]
    ELSE IF c \notin DOMAIN f THEN [ok |-> FALSE, s |-> path]
    ELSE [ok |-> TRUE, s |-> normpath(join(CwdStr(c), path))]

\* justpath(pattern), expanded=True: [ok, s]
justpath(f, c, pattern) ==
    abspath(f, c, IF isdir(f, c, pattern) THEN pattern ELSE dirname(pattern))

\* the while loop of removedirs
RECURSIVE RemovedirsLoop(_, _, _, _)
RemovedirsLoop(f, c, path, root) ==
    IF \A i \in 1..Len(path) : path[i] # Sep THEN [fs |-> f, ret |-> "True"]
    ELSE Only({
        IF ~jp.ok THEN [fs |-> f, ret |-> "OSError"]
        ELSE Only({IF r.ret = "OSError" THEN [fs |-> r.fs, ret |-> "False"]
                   ELSE RemovedirsLoop(r.fs, c, jp.s, root)
                   : r \in {rmdir(f, c, join(root, jp.s), FALSE)}})
        : jp \in {justpath(f, c, path)}})

\* removedirs(path, root, silent): [fs, ret]
removedirs(f, c, path, root, silent) ==
    Only({IF r.ret = "True" THEN RemovedirsLoop(r.fs, c, path, root) ELSE r
          : r \in {rmdir(f, c, join(root, path), silent)}})

(***************************************************************************)
(* The filesystems and the arguments of the calls                          *)
(***************************************************************************)
na == <<"a">>
nb == <<"b">>
ne == <<"e">>
nf == <<"f">>
ng == <<"g">>
nh == <<".", "h">>
nl == <<"l">>
no == <<"o">>

\* at most this many entries of an initial filesystem have a restricted
\* permission (a directory without w, or without any bit; an immutable file)
MaxRestricted == 1

\* a provisioning call is made at most this many times in a row
MaxRepeat == 2

Restricted(node) == node.imm \/ (node.kind = "dir" /\ node.mode # RWX)

DirModes == {RWX, {"r", "x"}, {}}
Dirs == {DirNode(m) : m \in DirModes}
Files == {FileNode(i) : i \in BOOLEAN}

\* every filesystem that extends one of S by the entries of plan, a sequence
\* of <<path, nodes>> with parents before children, each entry optional
RECURSIVE Grow(_, _)
Grow(S, plan) ==
    IF plan = <<>> THEN S
    ELSE LET p     == plan[1][1]
             nodes == plan[1][2]
             more  == {With(f, p, n) :
                         f \in {g \in S : Parent(p) \in DOMAIN g /\ g[Parent(p)].kind = "dir"},
                         n \in nodes}
         IN  Grow({f \in S \cup more :
                     Cardinality({q \in DOMAIN f : Restricted(f[q])}) <= MaxRestricted},
                  Tail(plan))

RootOnly == [p \in {Root} |-> DirNode(RWX)]

Start(fsys, dirs) ==
    /\ fs \in fsys
    /\ cwd \in {d \in dirs : d \in DOMAIN fs /\ fs[d].kind = "dir"}
    /\ pre = fs
    /\ call = [op |-> "none", path |-> <<>>, opt |-> "", root |-> <<>>]
    /\ ret = "none"
    /\ ncalls = 0

Done(r, op, path, opt, root) ==
    /\ fs' = r.fs
    /\ ret' = r.ret
    /\ pre' = fs
    /\ call' = [op |-> op, path |-> path, opt |-> opt, root |-> root]
    /\ ncalls' = ncalls + 1
    /\ UNCHANGED cwd

(***************************************************************************)
(* remove(pattern) and files.remove(path)                                  *)
(***************************************************************************)
RemoveFS ==
    Grow({RootOnly},
         << <<<<na>>, Dirs>>,
            <<<<na, nf>>, Files>>,
            <<<<na, ng>>, Files>>,
            <<<<na, ne>>, Files>>,
            <<<<na, nh>>, Files>>,
            <<<<na, nb>>, {DirNode(RWX)}>>,
            <<<<na, nb, nf>>, {FileNode(FALSE)}>>,
            <<<<na, nl>>, {LinkNode(<<Sep, "a", Sep, "f">>), LinkNode(<<Sep, "a", Sep, "b">>),
                           LinkNode(<<Sep, "x">>)}>> >>)

Patterns ==
    { <<"a", Sep, "*">>, <<Sep, "a", Sep, "*">>, <<"*">>, <<".", "*">>,
      <<"a", Sep, ".", "*">>, <<"a", Sep, "f">>, <<"a", Sep, "?">>,
      <<"a", Sep, "b", Sep, "*">>, <<"a", Sep, "l", Sep, "*">>,
      <<"x", Sep, "*">>, <<"a", Sep, "f", Sep, "*">>, <<"a", Sep, "l">>,
      <<".", Sep, "*">>, <<".", ".", Sep, "*">>, <<"*", Sep, "f">> }

PurgePaths ==
    { <<"a">>, <<Sep, "a">>, <<"a", Sep>>, <<".">>, <<".", ".">>, <<Sep>>,
      <<"a", Sep, "b">>, <<"a", Sep, "l">>, <<"x">>, <<"a", Sep, "f">>, <<>> }

Remove ==
    /\ ncalls = 0
    /\ \E pattern \in Patterns :
           Done(remove(fs, cwd, pattern), "remove", pattern, "", <<>>)

FilesDotRemove ==
    /\ ncalls = 0
    /\ \E path \in PurgePaths :
           Done(FilesRemove(fs, cwd, path), "files.remove", path, "", <<>>)

InitRemove == Start(RemoveFS, {Root, <<na>>})

NextRemove == Remove \/ FilesDotRemove

SpecRemove == InitRemove /\ [][NextRemove]_vars

(***************************************************************************)
(* content.remove(path)                                                    *)
(***************************************************************************)
Purged == [p \in {Root, <<na>>, <<no>>} |-> DirNode(RWX)]

ContentFS ==
    Grow({Purged},
         << <<<<na, nf>>, Files>>,
            <<<<na, nh>>, {FileNode(FALSE)}>>,
            <<<<na, nb>>, Dirs>>,
            <<<<na, nb, nf>>, {FileNode(FALSE)}>>,
            <<<<no, ng>>, {FileNode(FALSE)}>>,
            <<<<na, nl>>, {LinkNode(<<Sep, "o">>), LinkNode(<<Sep, "o", Sep, "g">>),
                           LinkNode(<<Sep, "x">>)}>> >>)

ContentPaths ==
    { <<Sep, "a">>, <<Sep, "a", Sep>>, <<"a">>, <<".">>, <<".", ".">>,
      <<".", ".", Sep>>, <<".", ".", Sep, ".", ".">>, <<Sep>>,
      <<Sep, "a", Sep, "b">>, <<"b">>, <<Sep, "a", Sep, "l">>,
      <<Sep, "x">>, <<Sep, "a", Sep, "f">> }

ContentDotRemove ==
    /\ ncalls = 0
    /\ \E path \in ContentPaths :
           \E r \in ContentRemove(fs, cwd, path) :
               Done(r, "content.remove", path, "", <<>>)

InitContent == Start(ContentFS, {Root, <<na>>, <<na, nb>>, <<no>>})

NextContent == ContentDotRemove

SpecContent == InitContent /\ [][NextContent]_vars

(***************************************************************************)
(* mkdir(path, purge=...) and makedirs(path, purge=...)                    *)
(***************************************************************************)
ProvisionFS ==
    Grow({RootOnly},
         << <<<<na>>, {DirNode(RWX)}>>,
            <<<<na, nb>>, {DirNode(RWX)}>>,
            <<<<na, nf>>, {FileNode(FALSE)}>>,
            <<<<na, nb, ng>>, {FileNode(FALSE)}>>,
            <<<<no>>, Dirs>> >>)

ProvisionPaths ==
    { <<Sep, "a">>, <<"a">>, <<"a", Sep>>, <<"a", Sep, "b">>, <<Sep, "a", Sep, "b", Sep>>,
      <<"b">>, <<"e">>, <<"a", Sep, "e">>, <<"e", Sep, "g">>, <<"a", Sep, "f">>,
      <<"a", Sep, "f", Sep, "e">>, <<"o", Sep, "e">>, <<".", ".", Sep, "e">>,
      <<"a", Sep, "b", Sep, "e", Sep, ".">> }

PurgeModes == {"None", "False", "files", "True", "content"}

\* the same call as the last one, when there was one
Again(op, path, purge) ==
    /\ ncalls < MaxRepeat
    /\ ncalls > 0 => call = [op |-> op, path |-> path, opt |-> purge, root |-> <<>>]

Mkdir ==
    \E path \in ProvisionPaths, purge \in PurgeModes :
        /\ Again("mkdir", path, purge)
        /\ Done(_mkdir(fs, cwd, FALSE, path, purge), "mkdir", path, purge, <<>>)

Makedirs ==
    \E path \in ProvisionPaths, purge \in PurgeModes :
        /\ Again("makedirs", path, purge)
        /\ Done(_mkdir(fs, cwd, TRUE, path, purge), "makedirs", path, purge, <<>>)

InitProvision == Start(ProvisionFS, {Root, <<na>>})

NextProvision == Mkdir \/ Makedirs

SpecProvision == InitProvision /\ [][NextProvision]_vars

(***************************************************************************)
(* rmdir(path, silent) and removedirs(path, root, silent)                  *)
(***************************************************************************)
DirsFS ==
    Grow({RootOnly},
         << <<<<no>>, {DirNode(RWX)}>>,
            <<<<no, na>>, {DirNode(RWX)}>>,
            <<<<no, na, nb>>, {DirNode(RWX)}>>,
            <<<<no, na, nf>>, {FileNode(FALSE)}>>,
            <<<<no, ng>>, {FileNode(FALSE)}>>,
            <<<<na>>, Dirs>>,
            <<<<na, nb>>, {DirNode(RWX)}>>,
            <<<<ne>>, {DirNode(RWX)}>>,
            <<<<ne, na>>, {DirNode(RWX)}>> >>)

DirPaths ==
    { <<"a", Sep, "b">>, <<"a">>, <<"a", Sep, "b", Sep>>, <<"a", Sep, "f">>,
      <<"b">>, <<Sep, "o", Sep, "a", Sep, "b">>, <<"a", Sep, "e">> }

DirRoots == { <<>>, <<Sep, "o">>, <<"o">>, <<Sep, "o", Sep>>, <<".">> }

Rmdir ==
    /\ ncalls = 0
    /\ \E path \in DirPaths, silent \in BOOLEAN :
           Done(rmdir(fs, cwd, path, silent), "rmdir", path, Flag(silent), <<>>)

Removedirs ==
    /\ ncalls = 0
    /\ \E path \in DirPaths, root \in DirRoots, silent \in BOOLEAN :
           Done(removedirs(fs, cwd, path, root, silent),
                "removedirs", path, Flag(silent), root)

InitDirs == Start(DirsFS, {Root, <<no>>, <<na>>, <<ne>>})

NextDirs == Rmdir \/ Removedirs

SpecDirs == InitDirs /\ [][NextDirs]_vars

(***************************************************************************)
(* The claims.  pre is the filesystem before the last call, fs the one     *)
(* after it, call the call and ret what it returned or raised.             *)
(***************************************************************************)
\* where the path of the last call led before the call: [ok, p]
Target == Lookup(pre, cwd, call.path, TRUE)

\* the entry at p is after the call what it was before
Same(p) == p \in DOMAIN fs /\ fs[p] = pre[p]

\* the entry at p can be unlinked before the call
Deletable(p) == ~pre[p].imm /\ CanModify(pre, Parent(p))

\* the matches of the last call's pattern before the call
Matches == iglob(pre, cwd, call.path)

\* the matches os.path.isfile accepts
FileMatches == {m \in Matches : isfile(pre, cwd, m)}

\* the pattern's directory component is empty or an existing directory
PatternDirExists == dirname(call.path) = <<>> \/ isdir(pre, cwd, dirname(call.path))

\* ---- C1 --------------------------------------------------------------
\* the directory component of the provisioned path ("." when there is none)
ParentOfPath ==
    IF dirname(RStripSep(call.path)) = <<>> THEN curdir
    ELSE dirname(RStripSep(call.path))

\* the path is a directory already, or is absent in a writable directory
Provisionable ==
    \/ isdir(pre, cwd, call.path)
    \/ /\ ~lexists(pre, cwd, call.path)
       /\ isdir(pre, cwd, ParentOfPath)
       /\ CanModify(pre, Lookup(pre, cwd, ParentOfPath, TRUE).p)

\* C1: mkdir and makedirs of a directory path whose parent exists, called
\* once or twice in a row with any purge option, raise nothing, and the path
\* is a directory after each call.
C1_ProvisionTwiceNeverErrors ==
    (call.op \in {"mkdir", "makedirs"} /\ Provisionable)
        => (ret = "None" /\ isdir(fs, cwd, call.path))

\* ---- C2 --------------------------------------------------------------
\* the target holds only plain files and subdirectories that can be deleted
AllDeletable(d) ==
    /\ pre[d].mode = RWX
    /\ \A p \in DOMAIN pre :
           Under(p, d) => /\ pre[p].kind \in {"file", "dir"}
                          /\ ~pre[p].imm
                          /\ pre[p].kind = "dir" => pre[p].mode = RWX

PurgeCase ==
    /\ call.op = "content.remove"
    /\ _testdir_noparent(pre, cwd, call.path) = ""
    /\ Target.p \in DOMAIN pre
    /\ AllDeletable(Target.p)

\* C2: content.remove of a directory that passes the guard and holds only
\* deletable plain files, dot-files and subdirectories returns True, and the
\* directory is still there and has no entry below it.
C2_ContentPurgeEmpties ==
    PurgeCase => /\ ret = "True"
                 /\ Target.p \in DOMAIN fs
                 /\ fs[Target.p].kind = "dir"
                 /\ \A p \in DOMAIN fs : ~Under(p, Target.p)

\* a purge of a directory with a file, a dot-file and a non-empty
\* subdirectory has emptied it
C2_Witness ==
    /\ PurgeCase
    /\ \E p, q, d \in Children(pre, Target.p) :
           /\ pre[p].kind = "file" /\ p[Len(p)][1] # "."
           /\ pre[q].kind = "file" /\ q[Len(q)][1] = "."
           /\ pre[d].kind = "dir" /\ Children(pre, d) # {}
    /\ ret = "True"
    /\ Children(fs, Target.p) = {}

\* ---- C3 --------------------------------------------------------------
\* C3: content.remove of a strict ancestor of the working directory, however
\* it is named, raises the parent-not-allowed error and deletes nothing; it
\* does not raise it for ".".
C3_GuardCoversEveryNaming ==
    (call.op = "content.remove" /\ isdir(pre, cwd, call.path))
        => /\ Under(cwd, Target.p) => (ret = ParentNotAllowed /\ fs = pre)
           /\ call.path = curdir => ret # ParentNotAllowed

\* ---- C4 --------------------------------------------------------------
\* C4: after its two preconditions passed, content.remove raises nothing: it
\* returns True or False, and True only when no child of the directory is
\* left.
C4_PurgeNeverRaises ==
    (call.op = "content.remove" /\ _testdir_noparent(pre, cwd, call.path) = "")
        => /\ ret \in {"True", "False"}
           /\ ret = "True" => Children(fs, Target.p) = {}

\* ---- C5 --------------------------------------------------------------
\* C5: remove(pattern) with an existing directory component returns True or
\* False; every matched plain file that can be deleted is gone, whatever
\* became of the other matches; the result is True exactly when every
\* matched plain file is gone, so it is True when there is none.
C5_RemoveBestEffort ==
    (call.op = "remove" /\ PatternDirExists)
        => /\ ret \in {"True", "False"}
           /\ \A m \in FileMatches :
                  Deletable(Lookup(pre, cwd, m, FALSE).p) => ~lexists(fs, cwd, m)
           /\ ret = "True" <=> \A m \in FileMatches : ~lexists(fs, cwd, m)

\* three plain files matched, one could not be deleted: the result is False
\* and the other two are gone
C5_Witness ==
    /\ call.op = "remove"
    /\ PatternDirExists
    /\ Cardinality(FileMatches) = 3
    /\ Cardinality({m \in FileMatches : lexists(fs, cwd, m)}) = 1
    /\ ret = "False"

\* ---- C6 --------------------------------------------------------------
\* C6: remove(pattern) with a non-empty directory component that is not a
\* directory raises the no-such-directory error and changes nothing.
C6_MissingDirectoryRaises ==
    (call.op = "remove" /\ ~PatternDirExists) => (ret = NoSuchDir /\ fs = pre)

\* the error was raised for a pattern that matches a plain file
C6_Witness ==
    /\ call.op = "remove"
    /\ ~PatternDirExists
    /\ FileMatches # {}
    /\ ret = NoSuchDir

\* ---- C7 --------------------------------------------------------------
\* the children of the target the two passes see as plain files
SeenFiles ==
    {p \in Children(pre, Target.p) :
        {"r", "x"} \subseteq pre[Target.p].mode /\ isfile(pre, Root, PathStr(p))}

FilesCase == call.op = "files.remove" /\ isdir(pre, cwd, call.path)

\* C7: files.remove of an existing directory leaves every subdirectory and
\* all below it unchanged, deletes every plain file of the directory that
\* can be deleted, dot-files included, and returns True exactly when both
\* passes deleted all they matched.
C7_FilesPurgeKeepsDirs ==
    FilesCase
        => /\ \A p \in DOMAIN pre :
                  (pre[p].kind = "dir" \/ Parent(p) # Target.p) => Same(p)
           /\ \A p \in SeenFiles :
                  (pre[p].kind = "file" /\ Deletable(p)) => p \notin DOMAIN fs
           /\ ret \in {"True", "False"}
           /\ ret = "True" <=> \A p \in SeenFiles : p \notin DOMAIN fs

\* the dot-file pass failed, the second pass still deleted a file, and a
\* subdirectory with its file is left
C7_Witness ==
    /\ FilesCase
    /\ ret = "False"
    /\ \E p, q, d \in Children(pre, Target.p) :
           /\ p[Len(p)][1] = "." /\ pre[p].imm /\ p \in DOMAIN fs
           /\ q[Len(q)][1] # "." /\ pre[q].kind = "file" /\ q \notin DOMAIN fs
           /\ pre[d].kind = "dir" /\ Children(fs, d) # {}

\* ---- C8 --------------------------------------------------------------
\* C8 as stated: every match of remove(pattern) that is a directory or a
\* symbolic link, whatever it points to, is still there after the call.
C8_RemoveSkipsLinks ==
    (call.op = "remove" /\ PatternDirExists)
        => \A m \in Matches :
               (isdir(pre, cwd, m) \/ islink(pre, cwd, m)) => lexists(fs, cwd, m)

\* C8 amended: every match of remove(pattern) that does not lead to a plain
\* file (a directory, a link to a directory, a dangling link) is unchanged
\* after the call and the result is True when there is no other match; a
\* link to a plain file is deleted like a plain file, its target is not.
C8_RemoveSkipsNonFiles ==
    (call.op = "remove" /\ PatternDirExists)
        => /\ \A m \in Matches \ FileMatches : Same(Lookup(pre, cwd, m, FALSE).p)
           /\ FileMatches = {} => ret = "True"
           /\ \A m \in FileMatches :
                  (islink(pre, cwd, m) /\ Deletable(Lookup(pre, cwd, m, FALSE).p))
                      => /\ ~lexists(fs, cwd, m)
                         /\ (Lookup(pre, cwd, m, TRUE).p \notin
                                 {Lookup(pre, cwd, n, FALSE).p : n \in Matches}
                             => Same(Lookup(pre, cwd, m, TRUE).p))

\* a directory and a link to a directory matched and are left, a plain file
\* matched and is gone
C8_Witness ==
    /\ call.op = "remove"
    /\ PatternDirExists
    /\ \E m, n, k \in Matches :
           /\ isdir(pre, cwd, m) /\ ~islink(pre, cwd, m) /\ isdir(fs, cwd, m)
           /\ isdir(pre, cwd, n) /\ islink(pre, cwd, n) /\ islink(fs, cwd, n)
           /\ isfile(pre, cwd, k) /\ ~lexists(fs, cwd, k)
    /\ ret = "True"

\* ---- C9 --------------------------------------------------------------
\* the directory the root argument names ("" is the working directory)
RootDir ==
    IF call.root = <<>> THEN [ok |-> TRUE, p |-> cwd]
    ELSE Lookup(pre, cwd, call.root, TRUE)

\* root/path and the directories between root and it
Chain ==
    {RootDir.p \o SubSeq(Names(call.path), 1, k) : k \in 1..Len(Names(call.path))}

\* C9: removedirs(path, root) with a relative path of several components
\* removes no directory but root/path and those between root and it.
C9_RootUnaffected ==
    (/\ call.op = "removedirs"
     /\ ~isabs(call.path)
     /\ Len(Names(call.path)) > 1
     /\ RootDir.ok
     /\ RootDir.p \in DOMAIN pre
     /\ pre[RootDir.p].kind = "dir")
        => DOMAIN pre \ DOMAIN fs \subseteq Chain

\* ---- C10 -------------------------------------------------------------
\* C10: content.remove(D) changes nothing outside the subtree of D.
C10_PurgeStaysInside ==
    (call.op = "content.remove" /\ isdir(pre, cwd, call.path))
        => \A p \in DOMAIN pre : ~Under(p, Target.p) => Same(p)

====
